---- MODULE Spec2Model ----
(***************************************************************************)
(* Model of src/src/algorithm.js (picture-color-theme-picker):             *)
(*   kmeans                  - a state machine, one action per loop step   *)
(*   sortColor               - a pure function applied to bounded inputs   *)
(*   getMonochromaticColors  - a pure function applied to bounded inputs   *)
(*                                                                         *)
(* Numbers.  Channels are integers.  Math.sqrt is strictly increasing, so  *)
(* a Euclidean distance is carried as its square (an integer) and every    *)
(* comparison the code makes on distances is made on the squares.  The     *)
(* HSV metrics are IEEE-754 doubles, in the code and here.                 *)
(***************************************************************************)
EXTENDS Integers, Sequences, FiniteSets

VARIABLES
  pc,              \* position of the running call
  pixels_array,    \* kmeans: the caller's array (parameter, same object)
  k,               \* kmeans: parameter
  max_iterations,  \* kmeans: parameter
  centers,         \* kmeans: local
  old_centers,     \* kmeans: local
  iterations,      \* kmeans: local
  clusters,        \* kmeans: local of the loop body (last pass)
  pixels_at_call,  \* history: content of pixels_array when kmeans was called
  passes,          \* history: number of completed loop bodies
  points,          \* sortColor: the caller's array (parameter, same object)
  order,           \* sortColor: parameter
  algorithm,       \* sortColor: parameter (name of the metric)
  sorted,          \* sortColor: returned array
  point,           \* getMonochromaticColors: parameter
  step,            \* getMonochromaticColors: parameter
  hsv_points,      \* getMonochromaticColors: local
  mono             \* getMonochromaticColors: returned array

vars == <<pc, pixels_array, k, max_iterations, centers, old_centers,
          iterations, clusters, pixels_at_call, passes,
          points, order, algorithm, sorted, point, step, hsv_points, mono>>

kmVars   == <<pixels_array, k, max_iterations, centers, old_centers,
              iterations, clusters, pixels_at_call, passes>>
sortVars == <<points, order, algorithm, sorted>>
monoVars == <<point, step, hsv_points, mono>>

(***************************************************************************)
(* Bounds of the model.                                                    *)
(***************************************************************************)
MaxN == 3
MaxIter == 1
MaxPoints == 3
MaxStep == 17

\* points given to kmeans: neighbours at distance 1 and sqrt(2), whose means
\* round up and down, and a far point
KmPoints == { <<0, 0, 0>>, <<1, 0, 0>>, <<1, 1, 0>>, <<10, 10, 10>> }

\* points given to getMonochromaticColors
Channels == {0, 1, 24, 204, 255}
ColorPoints == { <<r, g, b>> : r \in Channels, g \in Channels, b \in Channels }

\* the points sortColor can be given
Pixels == Nat \X Nat \X Nat

\* points given to sortColor: black, white, red, two points of saturation
\* 2/3 whose doubles differ, and two greens whose hue is 122
SortPoints == { <<0, 0, 0>>, <<255, 255, 255>>, <<255, 0, 0>>,
                <<3, 1, 1>>, <<33, 11, 11>>, <<0, 24, 1>>, <<0, 255, 10>> }

\* the ColorMetrics functions sortColor is given
Metrics == {"getBrightness", "getHue", "getSaturation", "getValue"}

SeqsUpTo(S, n) == UNION { [1..m -> S] : m \in 1..n }
Range(s) == { s[i] : i \in DOMAIN s }
Perms(s) == { [i \in DOMAIN s |-> s[f[i]]] :
                f \in { g \in [DOMAIN s -> DOMAIN s] :
                          \A a, b \in DOMAIN s : a # b => g[a] # g[b] } }
Max2(a, b) == IF a >= b THEN a ELSE b
Min2(a, b) == IF a <= b THEN a ELSE b
Max3(p) == Max2(p[1], Max2(p[2], p[3]))
Min3(p) == Min2(p[1], Min2(p[2], p[3]))

(***************************************************************************)
(* euclideanDistance, squared.                                             *)
(***************************************************************************)
euclideanDistanceSq(point1, point2) ==
  (point1[1] - point2[1]) * (point1[1] - point2[1]) +
  (point1[2] - point2[2]) * (point1[2] - point2[2]) +
  (point1[3] - point2[3]) * (point1[3] - point2[3])

\* mutant: the threshold of the convergence test is 2 instead of 1
isConvergedLoose(old, new) ==
  IF Len(old) = 0 THEN FALSE
  ELSE \A i \in 1..Len(old) : ~(euclideanDistanceSq(old[i], new[i]) > 4)

\* mutant: an empty old_centers counts as converged
isConvergedEmpty(old, new) ==
  \A i \in 1..Len(old) : ~(euclideanDistanceSq(old[i], new[i]) > 1)

\* distance > 1  <=>  squared distance > 1
isConverged(old, new) ==
  IF Len(old) = 0 THEN FALSE
  ELSE \A i \in 1..Len(old) : ~(euclideanDistanceSq(old[i], new[i]) > 1)

\* mutant: the budget test lets one more pass through
budgetLeftOffByOne(it, max) == it <= max + 1

\* the right operand of the while condition: iterations++ <= max_iterations,
\* on the value of iterations before the increment
budgetLeft(it, max) == it <= max

\* Math.min(...distances)
minDistance(ctrs, pixel) ==
  CHOOSE d \in { euclideanDistanceSq(ctrs[i], pixel) : i \in DOMAIN ctrs } :
    \A i \in DOMAIN ctrs : d <= euclideanDistanceSq(ctrs[i], pixel)

\* mutant: the last center at minimum distance wins
target_indexLast(ctrs, pixel) ==
  CHOOSE i \in DOMAIN ctrs :
    /\ euclideanDistanceSq(ctrs[i], pixel) = minDistance(ctrs, pixel)
    /\ \A j \in DOMAIN ctrs :
         euclideanDistanceSq(ctrs[j], pixel) = minDistance(ctrs, pixel) => j <= i

\* distances.indexOf(Math.min(...distances)), 1-based
target_index(ctrs, pixel) ==
  CHOOSE i \in DOMAIN ctrs :
    /\ euclideanDistanceSq(ctrs[i], pixel) = minDistance(ctrs, pixel)
    /\ \A j \in DOMAIN ctrs :
         euclideanDistanceSq(ctrs[j], pixel) = minDistance(ctrs, pixel) => i <= j

\* pixels_array.forEach(pixel => clusters[target_index].push(pixel))
RECURSIVE assign(_, _, _)
assign(pixels, ctrs, cl) ==
  IF pixels = <<>> THEN cl
  ELSE assign(Tail(pixels), ctrs,
              [cl EXCEPT ![target_index(ctrs, Head(pixels))] =
                           Append(@, Head(pixels))])

\* points.reduce((acc, val) => acc.map((x, i) => x + val[i]), [0, 0, 0])
RECURSIVE sumPoints(_)
sumPoints(ps) ==
  IF ps = <<>> THEN <<0, 0, 0>>
  ELSE LET acc == sumPoints(SubSeq(ps, 1, Len(ps) - 1))
           val == ps[Len(ps)]
       IN  <<acc[1] + val[1], acc[2] + val[2], acc[3] + val[3]>>

\* Math.round(x / n) for an integer x and n > 0: halves round up
roundDiv(x, n) == (2 * x + n) \div (2 * n)

\* sum.map(x => Math.round(x / points.length))
mean(ps) ==
  LET sum == sumPoints(ps)
  IN  <<roundDiv(sum[1], Len(ps)), roundDiv(sum[2], Len(ps)),
        roundDiv(sum[3], Len(ps))>>

\* mutant: an empty cluster contributes no center
newCentersDropEmpty(cl, pixels, pick) ==
  LET keep == SelectSeq([j \in DOMAIN cl |-> j], LAMBDA j : Len(cl[j]) # 0)
  IN  [n \in DOMAIN keep |-> mean(cl[keep[n]])]

\* indices of the clusters that got no point
emptyClusters(cl) == { j \in DOMAIN cl : Len(cl[j]) = 0 }

\* clusters.map(points => ...): pick[j] is the index that
\* Math.floor(Math.random() * pixels_array.length) yields for the empty
\* cluster j
newCenters(cl, pixels, pick) ==
  [j \in DOMAIN cl |->
     IF Len(cl[j]) = 0 THEN pixels[pick[j]] ELSE mean(cl[j])]

\* pixels_array.sort(() => 0.5 - Math.random()) sorts the array in place and
\* returns it: the array holds the shuffled order afterwards
shuffled_in_place(pixels, shuffled) == shuffled

(***************************************************************************)
(* kmeans                                                                  *)
(***************************************************************************)
KmInit ==
  /\ pc = "km_call"
  /\ pixels_array \in SeqsUpTo(KmPoints, MaxN)
  /\ k \in 1..Len(pixels_array)
  /\ max_iterations \in 0..MaxIter
  /\ centers = <<>>
  /\ old_centers = <<>>
  /\ iterations = 0
  /\ clusters = <<>>
  /\ pixels_at_call = pixels_array
  /\ passes = 0
  /\ points = <<>> /\ order = TRUE /\ algorithm = "none" /\ sorted = <<>>
  /\ point = <<0, 0, 0>> /\ step = 0 /\ hsv_points = <<>> /\ mono = <<>>

\* lines 39-41.  The comparator is random, hence inconsistent: the order the
\* sort leaves is any permutation of the array.
KmStart ==
  /\ pc = "km_call"
  /\ \E s \in Perms(pixels_array) :
       /\ pixels_array' = shuffled_in_place(pixels_array, s)
       /\ centers' = SubSeq(s, 1, Min2(k, Len(s)))
  /\ old_centers' = <<>>
  /\ iterations' = 0
  /\ pc' = "km_test"
  /\ UNCHANGED <<k, max_iterations, clusters, pixels_at_call, passes>>
  /\ UNCHANGED sortVars /\ UNCHANGED monoVars

\* line 42: !isConverged(old_centers, centers) && iterations++ <= max_iterations
KmTest ==
  /\ pc = "km_test"
  /\ IF isConverged(old_centers, centers)
       THEN /\ pc' = "km_done"
            /\ iterations' = iterations
       ELSE /\ iterations' = iterations + 1
            /\ pc' = IF budgetLeft(iterations, max_iterations)
                       THEN "km_assign" ELSE "km_done"
  /\ UNCHANGED <<pixels_array, k, max_iterations, centers, old_centers,
                 clusters, pixels_at_call, passes>>
  /\ UNCHANGED sortVars /\ UNCHANGED monoVars

\* lines 43-51
KmAssign ==
  /\ pc = "km_assign"
  /\ old_centers' = centers
  /\ clusters' = assign(pixels_array, centers, [j \in 1..k |-> <<>>])
  /\ pc' = "km_update"
  /\ UNCHANGED <<pixels_array, k, max_iterations, centers, iterations,
                 pixels_at_call, passes>>
  /\ UNCHANGED sortVars /\ UNCHANGED monoVars

\* lines 52-63
KmUpdate ==
  /\ pc = "km_update"
  /\ \E pick \in [emptyClusters(clusters) -> DOMAIN pixels_array] :
       centers' = newCenters(clusters, pixels_array, pick)
  /\ passes' = passes + 1
  /\ pc' = "km_test"
  /\ UNCHANGED <<pixels_array, k, max_iterations, old_centers, iterations,
                 clusters, pixels_at_call>>
  /\ UNCHANGED sortVars /\ UNCHANGED monoVars

KmNext == KmStart \/ KmTest \/ KmAssign \/ KmUpdate

Spec == KmInit /\ [][KmNext]_vars
FairSpec == Spec /\ WF_vars(KmNext)

(***************************************************************************)
(* JavaScript numbers.  A number is an IEEE-754 double <<s, m, e>> of      *)
(* value s * m * 2^e: s is 1 or -1, and m is a 53-bit mantissa             *)
(* (2^52 <= m < 2^53) held as three limbs <<hi, mid, lo>> of 20 bits.      *)
(* Zero is <<1, <<0, 0, 0>>, 0>> (the sign of a zero is not kept: 0 and -0 *)
(* are equal under ===), NaN is <<0, <<0, 0, 0>>, 0>>.  Every operation    *)
(* rounds its exact result to the nearest double, ties to even.  The code  *)
(* never produces an infinity or a subnormal.  The operations are          *)
(* functions: their arguments are values.                                  *)
(***************************************************************************)
Limb == 1024 * 1024
Two52 == Limb \div 256
Two53 == 2 * Two52

\* naturals as limbs <<hi, mid, lo>>: hi * 2^40 + mid * 2^20 + lo
Limbs == Nat \X Nat \X Nat
W0 == <<0, 0, 0>>
WNorm(h, m, l) ==
  <<h + ((m + (l \div Limb)) \div Limb), (m + (l \div Limb)) % Limb, l % Limb>>
WAdd[a \in Limbs, b \in Limbs] == WNorm(a[1] + b[1], a[2] + b[2], a[3] + b[3])
\* a - b for a >= b
WSub[a \in Limbs, b \in Limbs] == WNorm(a[1] - b[1], a[2] - b[2], a[3] - b[3])
WLess[a \in Limbs, b \in Limbs] ==
  \/ a[1] < b[1]
  \/ a[1] = b[1] /\ a[2] < b[2]
  \/ a[1] = b[1] /\ a[2] = b[2] /\ a[3] < b[3]
WDouble[a \in Limbs] == WNorm(2 * a[1], 2 * a[2], 2 * a[3])
WHalf[a \in Limbs] ==
  <<a[1] \div 2, (a[2] + (a[1] % 2) * Limb) \div 2,
    (a[3] + (a[2] % 2) * Limb) \div 2>>
\* a div 16
WShr4[a \in Limbs] ==
  <<a[1] \div 16, (a[2] + (a[1] % 16) * Limb) \div 16,
    (a[3] + (a[2] % 16) * Limb) \div 16>>
WOdd[a \in Limbs] == a[3] % 2 = 1
\* a * c for 0 <= c <= 1024
WMulSmall[a \in Limbs, c \in Nat] == WNorm(a[1] * c, a[2] * c, a[3] * c)

\* <<w div 2^n, (w mod 2^n) # 0 or st>>, by limbs, then by 4 bits, then by 1
WShr[w \in Limbs, n \in Nat, st \in BOOLEAN] ==
  CASE n = 0 \/ w = W0 -> <<w, st>>
    [] n >= 20 /\ w # W0 -> WShr[<<0, w[1], w[2]>>, n - 20, st \/ w[3] # 0]
    [] n \in 4..19 /\ w # W0 -> WShr[WShr4[w], n - 4, st \/ w[3] % 16 # 0]
    [] n \in 1..3 /\ w # W0 -> WShr[WHalf[w], n - 1, st \/ WOdd[w]]

Doubles == {-1, 0, 1} \X Limbs \X Int
NaN == <<0, W0, 0>>
Zero == <<1, W0, 0>>
IsNaN(x) == x[1] = 0
IsZero(x) == x[1] # 0 /\ x[2] = W0
Abs(n) == IF n < 0 THEN -n ELSE n

\* the double nearest to s * (w + t) * 2^e, where 0 < t < 1 if st and t = 0
\* otherwise, and g is the bit last shifted out of w (ties to even).  w is
\* brought to 53 bits by 4 bits or by 1 when it is longer, by limbs, by
\* 4 bits or by 1 when it is shorter (g and st are then FALSE).
Round53[s \in {-1, 1}, w \in Limbs, e \in Int, g \in BOOLEAN, st \in BOOLEAN] ==
  CASE w = W0 -> Zero
    [] w[1] >= 16 * Two53 ->
         Round53[s, WShr4[w], e + 4, (w[3] \div 8) % 2 = 1,
                 st \/ g \/ w[3] % 8 # 0]
    [] w[1] >= Two53 /\ w[1] < 16 * Two53 ->
         Round53[s, WHalf[w], e + 1, WOdd[w], st \/ g]
    [] w[1] = 0 /\ w # W0 -> Round53[s, <<w[2], w[3], 0>>, e - 20, FALSE, FALSE]
    [] w[1] > 0 /\ 16 * w[1] < Two53 ->
         Round53[s, WMulSmall[w, 16], e - 4, FALSE, FALSE]
    [] 16 * w[1] >= Two53 /\ w[1] < Two52 ->
         Round53[s, WDouble[w], e - 1, FALSE, FALSE]
    [] w[1] >= Two52 /\ w[1] < Two53 /\ ~(g /\ (st \/ WOdd[w])) -> <<s, w, e>>
    [] w[1] >= Two52 /\ w[1] < Two53 /\ g /\ (st \/ WOdd[w]) ->
         Round53[s, WAdd[w, <<0, 0, 1>>], e, FALSE, FALSE]

\* the integer n as a number
Num(n) == Round53[IF n < 0 THEN -1 ELSE 1, WNorm(0, 0, Abs(n)), 0, FALSE, FALSE]

DNeg[x \in Doubles] == IF x[2] = W0 THEN x ELSE <<-x[1], x[2], x[3]>>

\* |x| < |y| for finite non-zero doubles
MagLess[x \in Doubles, y \in Doubles] ==
  x[3] < y[3] \/ (x[3] = y[3] /\ WLess[x[2], y[2]])

\* x < y for doubles other than NaN
Less[x \in Doubles, y \in Doubles] ==
  CASE IsZero(x) -> ~IsZero(y) /\ y[1] = 1
    [] ~IsZero(x) /\ IsZero(y) -> x[1] = -1
    [] ~IsZero(x) /\ ~IsZero(y) /\ x[1] # y[1] -> x[1] = -1
    [] ~IsZero(x) /\ ~IsZero(y) /\ x[1] = y[1] ->
         IF x[1] = 1 THEN MagLess[x, y] ELSE MagLess[y, x]

\* x < y, x <= y and x === y as JavaScript evaluates them: false on NaN
DLt[x \in Doubles, y \in Doubles] == ~IsNaN(x) /\ ~IsNaN(y) /\ Less[x, y]
DLe[x \in Doubles, y \in Doubles] == ~IsNaN(x) /\ ~IsNaN(y) /\ ~Less[y, x]
DEq[x \in Doubles, y \in Doubles] == ~IsNaN(x) /\ ~IsNaN(y) /\ x = y

\* the mantissa of y moved down to the exponent of x: n bits to the right,
\* below three guard bits; the bits shifted out are kept as one sticky bit
Aligned[w \in Limbs, n \in Nat] ==
  LET sh == WShr[WMulSmall[w, 8], n, FALSE]
  IN  IF sh[2] /\ ~WOdd[sh[1]] THEN WAdd[sh[1], <<0, 0, 1>>] ELSE sh[1]

\* x + y for finite non-zero x and y with |x| >= |y|
MagSum[x \in Doubles, y \in Doubles] ==
  Round53[x[1],
          IF x[1] = y[1]
            THEN WAdd[WMulSmall[x[2], 8], Aligned[y[2], x[3] - y[3]]]
            ELSE WSub[WMulSmall[x[2], 8], Aligned[y[2], x[3] - y[3]]],
          x[3] - 3, FALSE, FALSE]

\* operator +
DAdd[x \in Doubles, y \in Doubles] ==
  CASE IsNaN(x) \/ IsNaN(y) -> NaN
    [] ~IsNaN(x) /\ ~IsNaN(y) /\ IsZero(x) -> y
    [] ~IsNaN(x) /\ ~IsNaN(y) /\ ~IsZero(x) /\ IsZero(y) -> x
    [] OTHER -> IF MagLess[x, y] THEN MagSum[y, x] ELSE MagSum[x, y]

\* operator -
DSub[x \in Doubles, y \in Doubles] == DAdd[x, DNeg[y]]

\* operator * with an integer c, |c| < 1024, as one operand
DMulInt[x \in Doubles, c \in Int] ==
  IF IsNaN(x) THEN NaN
  ELSE Round53[IF (c < 0) = (x[1] < 0) THEN 1 ELSE -1,
               WMulSmall[x[2], Abs(c)], x[3], FALSE, FALSE]

\* the next 10 bits of the quotient of r / d, for r < d and d a mantissa.
\* The quotient of the high limbs is within 1 of the digit.
DivDigit[R \in Limbs, d \in Limbs] ==
  LET est == R[1] \div d[1]
  IN  CASE ~WLess[R, WMulSmall[d, est + 1]] -> est + 1
        [] WLess[R, WMulSmall[d, est + 1]] /\ ~WLess[R, WMulSmall[d, est]] -> est
        [] WLess[R, WMulSmall[d, est]] -> est - 1

\* n more digits, of 10 bits each, of the quotient of r / d, for r < d:
\* <<ds with the digits appended, remainder>>
DivDigits[r \in Limbs, d \in Limbs, ds \in Seq(Nat), n \in Nat] ==
  IF n = 0 THEN <<ds, r>>
  ELSE DivDigits[WSub[WMulSmall[r, 1024],
                      WMulSmall[d, DivDigit[WMulSmall[r, 1024], d]]],
                 d, Append(ds, DivDigit[WMulSmall[r, 1024], d]), n - 1]

\* the quotient of the mantissas to 60 bits, from its leading bit and six
\* digits, with a sticky bit for the remainder
Quotient[one \in BOOLEAN, qr \in Seq(Nat) \X Limbs] ==
  << << (IF one THEN Limb ELSE 0) + qr[1][1] * 1024 + qr[1][2],
        qr[1][3] * 1024 + qr[1][4], qr[1][5] * 1024 + qr[1][6] >>,
     qr[2] # W0 >>

\* operator /: 0 / 0 is NaN; the code divides no other number by zero
DDiv[x \in Doubles, y \in Doubles] ==
  CASE IsNaN(x) \/ IsNaN(y) \/ IsZero(y) -> NaN
    [] ~IsNaN(x) /\ ~IsNaN(y) /\ ~IsZero(y) /\ IsZero(x) -> Zero
    [] OTHER ->
         LET one == ~WLess[x[2], y[2]]
             q   == Quotient[one, DivDigits[IF one THEN WSub[x[2], y[2]]
                                                   ELSE x[2],
                                            y[2], <<>>, 6]]
         IN  Round53[x[1] * y[1], q[1], x[3] - y[3] - 60, FALSE, q[2]]

\* the magnitude of Math.round for sign s, from t = <<twice the magnitude
\* cut to an integer, whether bits were cut>>: a half goes up when s = 1,
\* down when s = -1
RoundHalf[s \in {-1, 1}, t \in Limbs \X BOOLEAN] ==
  IF WOdd[t[1]] /\ (s = 1 \/ t[2]) THEN WAdd[WHalf[t[1]], <<0, 0, 1>>]
  ELSE WHalf[t[1]]

\* Math.round: the integer nearest to x, halves towards +Infinity
DRound[x \in Doubles] ==
  CASE IsNaN(x) \/ IsZero(x) \/ x[3] >= 0 -> x
    [] ~IsNaN(x) /\ ~IsZero(x) /\ x[3] < -53 -> Zero
    [] OTHER ->
         Round53[x[1], RoundHalf[x[1], WShr[x[2], (-x[3]) - 1, FALSE]], 0,
                 FALSE, FALSE]

(***************************************************************************)
(* ColorMetrics                                                            *)
(***************************************************************************)
\* getBrightness is euclideanDistance(point, [0, 0, 0]); it is carried as
\* its square, which orders points the same way
getBrightnessSq(p) == Num(euclideanDistanceSq(p, <<0, 0, 0>>))

\* line 119: if (hue < 0) hue += 360
wrapHue[hue \in Doubles] ==
  IF DLt[hue, Num(0)] THEN DAdd[hue, Num(360)] ELSE hue

\* getHue.  |(g - b) / delta| <= 1, so "% 6" leaves it unchanged.
getHue(p) ==
  LET r == p[1]  g == p[2]  b == p[3]
      max == Max3(p)
      min == Min3(p)
      delta == max - min
      sector == IF max = r THEN DDiv[Num(g - b), Num(delta)]
                ELSE IF max = g THEN DAdd[DDiv[Num(b - r), Num(delta)], Num(2)]
                ELSE DAdd[DDiv[Num(r - g), Num(delta)], Num(4)]
  IN  IF max = min THEN Num(0)
      ELSE wrapHue[DRound[DMulInt[sector, 60]]]

\* getSaturation: (V - m) / V on the channels divided by 255; 0 / 0 on black
getSaturation(p) ==
  LET m == DDiv[Num(Min3(p)), Num(255)]
      V == DDiv[Num(Max3(p)), Num(255)]
  IN  DDiv[DSub[V, m], V]

\* getValue: (max / 255) * 100
getValue(p) == DMulInt[DDiv[Num(Max3(p)), Num(255)], 100]

\* algorithm(p) for the metric named alg
Metric(alg, p) ==
  CASE alg = "getBrightness" -> getBrightnessSq(p)
    [] alg = "getHue"        -> getHue(p)
    [] alg = "getSaturation" -> getSaturation(p)
    [] alg = "getValue"      -> getValue(p)

(***************************************************************************)
(* sortColor                                                               *)
(***************************************************************************)
\* the comparator's result is negative: algorithm(a) - algorithm(b) < 0 when
\* ascending, algorithm(b) - algorithm(a) < 0 when descending
before(ord, alg, a, b) ==
  IF ord THEN DLt[DSub[Metric(alg, a), Metric(alg, b)], Num(0)]
         ELSE DLt[DSub[Metric(alg, b), Metric(alg, a)], Num(0)]

\* x goes after every element it is not strictly before (the sort is stable)
insertStable[ord \in BOOLEAN, alg \in Metrics, s \in Seq(Pixels), x \in Pixels] ==
  IF s = <<>> THEN <<x>>
  ELSE IF before(ord, alg, x, s[Len(s)])
         THEN Append(insertStable[ord, alg, SubSeq(s, 1, Len(s) - 1), x],
                     s[Len(s)])
         ELSE Append(s, x)

stableSort[ord \in BOOLEAN, alg \in Metrics, s \in Seq(Pixels)] ==
  IF s = <<>> THEN <<>>
  ELSE insertStable[ord, alg,
                    stableSort[ord, alg, SubSeq(s, 1, Len(s) - 1)], s[Len(s)]]

\* Array.prototype.sort with the comparator of sortColor.  The comparator
\* returns NaN, which the sort reads as 0, on a point whose metric is NaN.
\* If it also orders two other points it is not a consistent comparator
\* (equality is not transitive) and the order the sort leaves is
\* implementation-defined: any permutation of the array.  Otherwise the sort
\* is the stable sort.
sortOutcomes(ps, ord, alg) ==
  IF /\ \E i \in DOMAIN ps : IsNaN(Metric(alg, ps[i]))
     /\ \E i, j \in DOMAIN ps : before(ord, alg, ps[i], ps[j])
    THEN Perms(ps)
    ELSE { stableSort[ord, alg, ps] }

SortInit ==
  /\ pc = "sort_call"
  /\ points \in SeqsUpTo(SortPoints, MaxPoints)
  /\ order \in BOOLEAN
  /\ algorithm \in Metrics
  /\ sorted = <<>>
  /\ pixels_array = <<>> /\ k = 0 /\ max_iterations = 0 /\ centers = <<>>
  /\ old_centers = <<>> /\ iterations = 0 /\ clusters = <<>>
  /\ pixels_at_call = <<>> /\ passes = 0
  /\ point = <<0, 0, 0>> /\ step = 0 /\ hsv_points = <<>> /\ mono = <<>>

\* lines 152-156: the array is sorted in place and returned
SortColor ==
  /\ pc = "sort_call"
  /\ \E res \in sortOutcomes(points, order, algorithm) :
       /\ points' = res
       /\ sorted' = res
  /\ pc' = "sort_done"
  /\ UNCHANGED <<order, algorithm>>
  /\ UNCHANGED kmVars /\ UNCHANGED monoVars

SortNext == SortColor
SpecSort == SortInit /\ [][SortNext]_vars

(***************************************************************************)
(* getMonochromaticColors                                                  *)
(***************************************************************************)
\* hsvToRgb of ./utils: an opaque deterministic function of its arguments
hsvToRgb(h, s, v) == <<"hsvToRgb", h, s, v>>

\* lines 165-169
hsvOf(p) == <<getHue(p), getSaturation(p), getValue(p)>>

\* lines 172-175
clipOf(p, clip_n) ==
  LET saturation == getSaturation(p)
      value == getValue(p)
  IN  << << DRound[DDiv[saturation, Num(clip_n)]],
            DRound[DDiv[DSub[Num(100), value], Num(clip_n)]] >>,
         << DRound[DDiv[DSub[Num(100), saturation], Num(clip_n)]],
            DRound[DDiv[value, Num(clip_n)]] >> >>

\* mutant: the first loop counts its value up from 0
firstLoopUp(hue, clip, clip_n) ==
  [m \in 1..clip_n |->
     <<hue, DMulInt[clip[1][1], m - 1], DMulInt[clip[1][2], m - 1]>>]

\* lines 176-178: i = m - 1 runs from 0 to clip_n - 1
firstLoop(hue, clip, clip_n) ==
  [m \in 1..clip_n |->
     <<hue, DMulInt[clip[1][1], m - 1],
            DSub[Num(100), DMulInt[clip[1][2], m - 1]]>>]

\* lines 180-182: i = clip_n - m runs from clip_n - 1 down to 0
secondLoop(hue, clip, clip_n) ==
  [m \in 1..clip_n |->
     <<hue, DSub[Num(100), DMulInt[clip[2][1], clip_n - m]],
            DMulInt[clip[2][2], clip_n - m]>>]

\* the triples and the pairs of clip the loops are given
HsvTriples == Doubles \X Doubles \X Doubles
Clips == (Doubles \X Doubles) \X (Doubles \X Doubles)

\* mutant: the original triple is pushed before the first loop
hsvPointsOrigFirstFrom[hsv \in HsvTriples, clip \in Clips, clip_n \in Nat] ==
  <<hsv>> \o firstLoop(hsv[1], clip, clip_n) \o secondLoop(hsv[1], clip, clip_n)

hsvPointsOrigFirst(p, st) ==
  hsvPointsOrigFirstFrom[hsvOf(p), clipOf(p, st + 1), st + 1]

\* lines 176-182 on the values of lines 165-175
hsvPointsFrom[hsv \in HsvTriples, clip \in Clips, clip_n \in Nat] ==
  firstLoop(hsv[1], clip, clip_n) \o <<hsv>> \o secondLoop(hsv[1], clip, clip_n)

\* lines 165-182
hsvPointsOf(p, st) == hsvPointsFrom[hsvOf(p), clipOf(p, st + 1), st + 1]

MonoInit ==
  /\ pc = "mono_call"
  /\ point \in ColorPoints
  /\ step \in 0..MaxStep
  /\ hsv_points = <<>>
  /\ mono = <<>>
  /\ pixels_array = <<>> /\ k = 0 /\ max_iterations = 0 /\ centers = <<>>
  /\ old_centers = <<>> /\ iterations = 0 /\ clusters = <<>>
  /\ pixels_at_call = <<>> /\ passes = 0
  /\ points = <<>> /\ order = TRUE /\ algorithm = "none" /\ sorted = <<>>

\* lines 164-183
GetMonochromaticColors ==
  /\ pc = "mono_call"
  /\ hsv_points' = hsvPointsOf(point, step)
  /\ mono' = [i \in DOMAIN hsv_points' |->
                hsvToRgb(hsv_points'[i][1], hsv_points'[i][2], hsv_points'[i][3])]
  /\ pc' = "mono_done"
  /\ UNCHANGED <<point, step>>
  /\ UNCHANGED kmVars /\ UNCHANGED sortVars

MonoNext == GetMonochromaticColors
SpecMono == MonoInit /\ [][MonoNext]_vars

(***************************************************************************)
(* Properties of kmeans                                                    *)
(***************************************************************************)
Count(v, s) == Cardinality({ i \in DOMAIN s : s[i] = v })

RECURSIVE Flatten(_)
Flatten(ss) == IF ss = <<>> THEN <<>> ELSE Head(ss) \o Flatten(Tail(ss))

AllEqual(s) == \A i \in DOMAIN s : s[i] = s[1]

\* C1: after every assignment step the k clusters hold every input point
\* exactly once, and each point sits in the lowest-index cluster among those
\* whose center is at minimum Euclidean distance from it.
C1_Partition ==
  pc = "km_update" =>
    /\ Len(clusters) = k
    /\ Len(Flatten(clusters)) = Len(pixels_array)
    /\ \A v \in Range(pixels_array) :
         Count(v, Flatten(clusters)) = Count(v, pixels_array)
    /\ \A j \in DOMAIN clusters : \A m \in DOMAIN clusters[j] :
         \A i \in DOMAIN centers :
           /\ euclideanDistanceSq(centers[j], clusters[j][m])
                <= euclideanDistanceSq(centers[i], clusters[j][m])
           /\ i < j => euclideanDistanceSq(centers[j], clusters[j][m])
                         < euclideanDistanceSq(centers[i], clusters[j][m])

\* an assignment step in which some point is equally near two centers, and
\* in which the input has a duplicated point
C1_Witness ==
  /\ pc = "km_update"
  /\ k >= 2
  /\ \E a, b \in DOMAIN pixels_array : a # b /\ pixels_array[a] = pixels_array[b]
  /\ \E n \in DOMAIN pixels_array : \E i, j \in DOMAIN centers :
       /\ i < j
       /\ euclideanDistanceSq(centers[i], pixels_array[n])
            = minDistance(centers, pixels_array[n])
       /\ euclideanDistanceSq(centers[j], pixels_array[n])
            = minDistance(centers, pixels_array[n])

\* C2: centers has exactly k entries from initialisation on, after every
\* pass and on return; the entry of a cluster that came out empty is an
\* element of the input collection.
C2_CentersLengthK ==
  pc \in {"km_test", "km_assign", "km_update", "km_done"} =>
    /\ Len(centers) = k
    /\ (passes >= 1 /\ pc \in {"km_test", "km_assign", "km_done"}) =>
         \A j \in DOMAIN clusters :
           Len(clusters[j]) = 0 => centers[j] \in Range(pixels_array)

\* kmeans has returned and a cluster of its last pass was empty
C2_Witness ==
  /\ pc = "km_done"
  /\ passes >= 1
  /\ \E j \in DOMAIN clusters : Len(clusters[j]) = 0

\* C3: kmeans always returns, and never runs more than max_iterations + 1
\* assignment/update passes.
C3_Terminates ==
  /\ <>(pc = "km_done")
  /\ [](passes <= max_iterations + 1)

\* kmeans returned without converging, after max_iterations + 1 passes
C3_Witness ==
  /\ pc = "km_done"
  /\ passes = max_iterations + 1
  /\ ~isConverged(old_centers, centers)

\* C4: after kmeans returns, the caller's sequence holds the same points in
\* the same order as before the call.
C4_InputUnchanged ==
  pc = "km_done" => pixels_array = pixels_at_call

\* C8: when all input points equal p, kmeans returns k centers equal to p
\* after exactly one pass.
C8_IdenticalPoints ==
  (pc = "km_done" /\ AllEqual(pixels_at_call)) =>
    /\ passes = 1
    /\ Len(centers) = k
    /\ \A i \in DOMAIN centers : centers[i] = pixels_at_call[1]

\* kmeans returned on three identical points, with an empty cluster on the way
C8_Witness ==
  /\ pc = "km_done"
  /\ AllEqual(pixels_at_call)
  /\ Len(pixels_at_call) = 3
  /\ k >= 2
  /\ pixels_at_call[1] # <<0, 0, 0>>

\* C9: a return after fewer than max_iterations + 1 passes happens after at
\* least one pass, with every center within distance 1 of the center of the
\* same index at the start of the final pass; and no return happens without
\* a pass.
C9_ConvergedReturn ==
  pc = "km_done" =>
    /\ passes >= 1
    /\ passes < max_iterations + 1 =>
         /\ Len(old_centers) = Len(centers)
         /\ \A i \in DOMAIN centers :
              euclideanDistanceSq(old_centers[i], centers[i]) <= 1

\* an early return in which some center moved (by distance 1) in the last pass
C9_Witness ==
  /\ pc = "km_done"
  /\ passes < max_iterations + 1
  /\ \E i \in DOMAIN centers : centers[i] # old_centers[i]

(***************************************************************************)
(* Properties of sortColor                                                 *)
(***************************************************************************)
\* C5: the sequence sortColor returns has its metric non-decreasing across
\* every pair of adjacent elements when ascending, non-increasing when
\* descending, for every metric and every sequence of points.
C5_Sorted ==
  pc = "sort_done" =>
    \A i \in 1..(Len(sorted) - 1) :
      IF order
        THEN DLe[Metric(algorithm, sorted[i]), Metric(algorithm, sorted[i + 1])]
        ELSE DLe[Metric(algorithm, sorted[i + 1]), Metric(algorithm, sorted[i])]

(***************************************************************************)
(* Properties of getMonochromaticColors                                    *)
(***************************************************************************)
\* x is a whole number
IsWhole(x) == DEq[DRound[x], x]

\* two HSV triples are equal, component by component, as JavaScript compares
TripleEq(a, b) == DEq[a[1], b[1]] /\ DEq[a[2], b[2]] /\ DEq[a[3], b[3]]

\* number of positions of hsv_points that hold the original triple: the
\* position it is pushed at, and every other position holding an equal triple
Occurrences ==
  1 + Cardinality({ i \in DOMAIN hsv_points :
                      i # step + 2 /\ TripleEq(hsv_points[i], hsvOf(point)) })

MonoShape ==
  /\ Len(hsv_points) = 2 * (step + 1) + 1
  /\ Len(mono) = 2 * (step + 1) + 1
  /\ hsv_points[step + 2] = hsvOf(point)
  /\ mono[step + 2] = hsvToRgb(getHue(point), getSaturation(point),
                               getValue(point))

\* C6 as stated: 2*(step+1)+1 colours, the one at index step+1 (0-based) is
\* the conversion of the triple derived from p, and that triple appears in
\* the HSV sequence exactly once.
C6_OriginalOnce ==
  pc = "mono_done" => (MonoShape /\ Occurrences = 1)

\* C6 as amended: 2*(step+1)+1 colours, the one at index step+1 (0-based) is
\* the conversion of the triple derived from p; the triple appears exactly
\* once whenever the derived value (max / 255) * 100 is not a whole number.
C6_LengthAndMiddle ==
  pc = "mono_done" =>
    /\ MonoShape
    /\ ~IsWhole(hsv_points[step + 2][3]) => Occurrences = 1

\* the default step on a point whose value is not a whole number
C6_Witness ==
  /\ pc = "mono_done"
  /\ step = 3
  /\ ~IsWhole(hsv_points[step + 2][3])
  /\ Len(mono) = 9

\* C7 as stated: for a non-black point the value of the first element is no
\* greater than that of the original in the middle, which is no greater than
\* that of the last element (dark to light).
C7_DarkToLight ==
  (pc = "mono_done" /\ point # <<0, 0, 0>>) =>
    /\ DLe[hsv_points[1][3], hsv_points[step + 2][3]]
    /\ DLe[hsv_points[step + 2][3], hsv_points[Len(hsv_points)][3]]

\* C7 as amended: for a non-black point the value of the first element is no
\* less than that of the original in the middle, which is no less than that
\* of the last element (light to dark).
C7_LightToDark ==
  (pc = "mono_done" /\ point # <<0, 0, 0>>) =>
    /\ hsv_points[step + 2] = hsvOf(point)
    /\ DLe[hsv_points[step + 2][3], hsv_points[1][3]]
    /\ DLe[hsv_points[Len(hsv_points)][3], hsv_points[step + 2][3]]

\* the default step on a point whose value lies strictly between those of
\* the two ends
C7_Witness ==
  /\ pc = "mono_done"
  /\ step = 3
  /\ DLt[hsv_points[Len(hsv_points)][3], hsv_points[step + 2][3]]
  /\ DLt[hsv_points[step + 2][3], hsv_points[1][3]]

\* C10: for a non-black point and every step >= 0, every HSV triple built has
\* hue in [0, 360), saturation in [0, 100] and value in [0, 100].
C10_HsvInRange ==
  (pc = "mono_done" /\ point # <<0, 0, 0>>) =>
    \A i \in DOMAIN hsv_points :
      /\ DLe[Num(0), hsv_points[i][1]] /\ DLt[hsv_points[i][1], Num(360)]
      /\ DLe[Num(0), hsv_points[i][2]] /\ DLe[hsv_points[i][2], Num(100)]
      /\ DLe[Num(0), hsv_points[i][3]] /\ DLe[hsv_points[i][3], Num(100)]

====
